---- MODULE Spec2Model ----
(***************************************************************************)
(* Lifecycle, render loop and audio resources of the audio visualizer      *)
(* components: LiveAudioVisualizer, RecordingVisualizer,                   *)
(* TextAudioVisualizer, AudioControls / OldRecording with AudioVisualizer. *)
(*                                                                         *)
(* One component instance is mounted per behaviour (chosen in Init).  A    *)
(* handler is an operator from a state record to a state record; an action *)
(* applies the handler to the current state, then the React commit         *)
(* (re-render, effect cleanups, effects) that its state updates trigger,   *)
(* and installs the result.  Callbacks close over the values of the render *)
(* that created them, so the commit takes the previous render's values.    *)
(*                                                                         *)
(* Spec is the lifecycle of one component under its page; SpecRec is       *)
(* RecordingVisualizer with the data chunks its recorders deliver;         *)
(* SpecDraw applies drawWaveform and drawSpectrum to every configuration   *)
(* and snapshot.                                                           *)
(***************************************************************************)
EXTENDS Integers, FiniteSets, Sequences, TLC

\* ---- bounds ----
MaxStarts == 2      \* start requests (getUserMedia calls) per behaviour
MaxPending == 1     \* play() promises, and file uploads, awaiting at a time
MaxContexts == 2    \* audio contexts created before the last switch of tabs
MaxChunks == 2      \* dataavailable events with data per behaviour

VizTypes == {"waveform", "spectrum"}

\* the controls components, and the components that capture the microphone
Controls == {"File1", "File2", "Old"}
Capturing == {"Live", "Rec", "File1", "Old"}

\* how the speech engine reports a cancelled utterance
CancelHow == {"end", "error"}

VARIABLES
  component,          \* which component is mounted in this behaviour
  mounted,            \* the component instance is mounted (canvasRef.current set)
  op,                 \* the operation that ran last
  threw,              \* the last operation ended with an uncaught exception
  visualizationType,  \* prop handed down by the page
  isListening,        \* LiveAudioVisualizer state
  isRecording,        \* RecordingVisualizer / AudioControls state
  mediaRecorderRef,   \* 0 = null, else id of the stream the recorder records
  recording,          \* recorders in state "recording" (named by their stream)
  error,              \* error message state is non-null
  animationFrameRef,  \* 0 = undefined, else the id last returned by requestAnimationFrame
  pendingFrames,      \* scheduled animation callbacks: [id, cl], cl the values animate closes over
  drew,               \* the last operation painted a frame on the canvas
  audioContextRef,    \* 0 = null, else context id
  analyserRef,        \* 0 = null, else id of the context that created the analyser
  streamRef,          \* 0 = null, else stream id
  sourceRef,          \* 0 = null, else id of the context that created the source node
  nStreams,           \* streams acquired so far (ids 1..nStreams)
  liveStreams,        \* streams whose tracks are live
  nCtx,               \* audio contexts created so far
  openCtx,            \* audio contexts not closed
  edges,              \* audio graph connections <<from, to>>, nodes are <<kind, ctx>>
  starts,             \* start calls: request id -> [pc, stream, ctx]
  isPlaying,          \* TextAudioVisualizer / AudioControls state
  isPaused,           \* TextAudioVisualizer state
  gainNodeRef,        \* 0 = null, else id of the context that created the gain node
  utt,                \* utterances: id -> [st, osc, timers]
  events,             \* speech events queued for delivery: <<utterance, type>>
  speechPaused,       \* speechSynthesis.paused
  audioContext,       \* AudioControls state: 0 = null, else context id
  mediaRecorder,      \* AudioControls state: 0 = null, else id of the recorded stream
  audioUrl,           \* AudioControls state: audioUrl is non-null
  elementSrc,         \* the hidden audio element has a src
  elementPlaying,     \* the hidden audio element is playing
  bridges,            \* createMediaElementSource calls made on the hidden audio element
  playPending,        \* play() promises not yet settled
  uploads,            \* handleFileUpload calls awaiting
  stopEvents,         \* recorders whose stop event is queued
  pgAnalyser,         \* page state handed to AudioVisualizer as analyser
  pgIsPlaying,        \* page state handed to AudioVisualizer as isPlaying
  alerted,            \* alert() was called in this step
  recordingChunks,    \* RecordingVisualizer state: the chunks gathered, each <<recorder, number>>
  emitted,            \* chunks each recorder has delivered
  completed,          \* calls of onRecordingComplete made by the last operation: [rec, blob]
  released,           \* teardown steps performed by the last operation, in order
  config,             \* props width, height, barWidth, barGap of the visualizer
  snapshot,           \* the Uint8Array the analyser filled for this frame
  canvas              \* what the last draw put on the canvas

cvars == <<component, mounted, op, threw, visualizationType, isListening,
          isRecording, mediaRecorderRef, recording, error,
          animationFrameRef, pendingFrames, drew, audioContextRef,
          analyserRef, streamRef, sourceRef, nStreams, liveStreams, nCtx,
          openCtx, edges, starts,
          isPlaying, isPaused, gainNodeRef, utt, events, speechPaused, audioContext, mediaRecorder, audioUrl, elementSrc, elementPlaying, bridges, playPending, uploads, stopEvents, pgAnalyser, pgIsPlaying, alerted, recordingChunks, emitted, completed, released>>

vars == <<cvars, config, snapshot, canvas>>

Cur ==
  [component |-> component, mounted |-> mounted, op |-> op, threw |-> threw,
   visualizationType |-> visualizationType, isListening |-> isListening,
   isRecording |-> isRecording, mediaRecorderRef |-> mediaRecorderRef,
   recording |-> recording,
   error |-> error, animationFrameRef |-> animationFrameRef,
   pendingFrames |-> pendingFrames, drew |-> drew,
   audioContextRef |-> audioContextRef, analyserRef |-> analyserRef,
   streamRef |-> streamRef, sourceRef |-> sourceRef, nStreams |-> nStreams,
   liveStreams |-> liveStreams, nCtx |-> nCtx, openCtx |-> openCtx,
   edges |-> edges, starts |-> starts, isPlaying |-> isPlaying,
   isPaused |-> isPaused,
   gainNodeRef |-> gainNodeRef,
   utt |-> utt,
   events |-> events,
   speechPaused |-> speechPaused,
   audioContext |-> audioContext,
   mediaRecorder |-> mediaRecorder,
   audioUrl |-> audioUrl,
   elementSrc |-> elementSrc,
   elementPlaying |-> elementPlaying,
   bridges |-> bridges,
   playPending |-> playPending,
   uploads |-> uploads,
   stopEvents |-> stopEvents,
   pgAnalyser |-> pgAnalyser,
   pgIsPlaying |-> pgIsPlaying,
   alerted |-> alerted,
   recordingChunks |-> recordingChunks,
   emitted |-> emitted,
   completed |-> completed,
   released |-> released]

Install(r) ==
  /\ component' = r.component
  /\ mounted' = r.mounted
  /\ op' = r.op
  /\ threw' = r.threw
  /\ visualizationType' = r.visualizationType
  /\ isListening' = r.isListening
  /\ isRecording' = r.isRecording
  /\ mediaRecorderRef' = r.mediaRecorderRef
  /\ recording' = r.recording
  /\ error' = r.error
  /\ animationFrameRef' = r.animationFrameRef
  /\ pendingFrames' = r.pendingFrames
  /\ drew' = r.drew
  /\ audioContextRef' = r.audioContextRef
  /\ analyserRef' = r.analyserRef
  /\ streamRef' = r.streamRef
  /\ sourceRef' = r.sourceRef
  /\ nStreams' = r.nStreams
  /\ liveStreams' = r.liveStreams
  /\ nCtx' = r.nCtx
  /\ openCtx' = r.openCtx
  /\ edges' = r.edges
  /\ starts' = r.starts
  /\ isPlaying' = r.isPlaying
  /\ isPaused' = r.isPaused
  /\ gainNodeRef' = r.gainNodeRef
  /\ utt' = r.utt
  /\ events' = r.events
  /\ speechPaused' = r.speechPaused
  /\ audioContext' = r.audioContext
  /\ mediaRecorder' = r.mediaRecorder
  /\ audioUrl' = r.audioUrl
  /\ elementSrc' = r.elementSrc
  /\ elementPlaying' = r.elementPlaying
  /\ bridges' = r.bridges
  /\ playPending' = r.playPending
  /\ uploads' = r.uploads
  /\ stopEvents' = r.stopEvents
  /\ pgAnalyser' = r.pgAnalyser
  /\ pgIsPlaying' = r.pgIsPlaying
  /\ alerted' = r.alerted
  /\ recordingChunks' = r.recordingChunks
  /\ emitted' = r.emitted
  /\ completed' = r.completed
  /\ released' = r.released
  /\ UNCHANGED <<config, snapshot, canvas>>

\* The state an operation named o starts from: the per-operation observations are reset.
Begin(o) ==
  [Cur EXCEPT !.op = o, !.threw = FALSE, !.drew = FALSE, !.alerted = FALSE,
              !.completed = <<>>, !.released = <<>>]

NoStart == [pc |-> "none", stream |-> 0, ctx |-> 0]
Finished == [pc |-> "done", stream |-> 0, ctx |-> 0]

\* st: "none", "queued", "speaking", "paused", "done";
\* osc: the utterance's oscillator, "none", "created", "started", "stopped";
\* timers: live modulation interval timers
NoUtterance == [st |-> "none", osc |-> "none", timers |-> 0]

\* ---- platform primitives ----

\* requestAnimationFrame returns a handle that is not in use: only the pending
\* callbacks and animationFrameRef (overwritten with the result) hold handles.
NewFrameId(s) ==
  CHOOSE i \in 1..(Cardinality(s.pendingFrames) + 1) :
    \A f \in s.pendingFrames : f.id # i

cancelAnimationFrame(s, id) ==
  IF \E f \in s.pendingFrames : f.id = id
  THEN [s EXCEPT !.pendingFrames = {f \in @ : f.id # id},
                 !.released = Append(@, "cancelFrame")]
  ELSE s

\* stream.getTracks().forEach(track => track.stop())
stopTracks(s, st) ==
  IF st \in s.liveStreams
  THEN [s EXCEPT !.liveStreams = @ \ {st}, !.released = Append(@, "stopTracks")]
  ELSE s

\* node.disconnect(): removes every outgoing connection of the node
disconnect(s, node) ==
  IF \E e \in s.edges : e[1] = node
  THEN [s EXCEPT !.edges = {e \in @ : e[1] # node},
                 !.released = Append(@, "disconnect")]
  ELSE s

\* audioContext.close()
closeContext(s, c) ==
  IF c \in s.openCtx
  THEN [s EXCEPT !.openCtx = @ \ {c}, !.released = Append(@, "closeContext")]
  ELSE s

clearAnalyser(s) ==
  IF s.analyserRef # 0
  THEN [s EXCEPT !.analyserRef = 0, !.released = Append(@, "clearAnalyser")]
  ELSE s

\* ---- the render loop (the same code in every visualizer) ----

\* animate, as created by the render whose values are cl = [active, vt]
animate(s, cl) ==
  IF s.analyserRef = 0 \/ ~s.mounted \/ ~cl.active
  THEN s
  ELSE LET id == NewFrameId(s)
       IN [s EXCEPT !.drew = TRUE,
                    !.pendingFrames = @ \cup {[id |-> id, cl |-> cl]},
                    !.animationFrameRef = id]

\* a cleanup that forgets to cancel the scheduled callback
animationCleanup_noCancel(s) == s

\* cleanup of the animation effect
animationCleanup(s) ==
  IF s.animationFrameRef # 0 THEN cancelAnimationFrame(s, s.animationFrameRef) ELSE s

\* an animation effect that does not start the loop
animationEffect_idle(s, cl) ==
  IF s.animationFrameRef # 0 THEN cancelAnimationFrame(s, s.animationFrameRef) ELSE s

\* body of the animation effect, run with the values cl of the render that owns it
animationEffect(s, cl) ==
  IF cl.active /\ s.analyserRef # 0 THEN animate(s, cl)
  ELSE IF s.animationFrameRef # 0 THEN cancelAnimationFrame(s, s.animationFrameRef)
  ELSE s

\* ---- LiveAudioVisualizer ----

\* The values a render's callbacks close over.
LAV_closure(s) == [active |-> s.isListening, vt |-> s.visualizationType]

LAV_stopListening(s) ==
  LET s1 == IF s.animationFrameRef # 0 THEN cancelAnimationFrame(s, s.animationFrameRef) ELSE s
      s2 == IF s1.streamRef # 0
            THEN [stopTracks(s1, s1.streamRef) EXCEPT !.streamRef = 0] ELSE s1
      s3 == IF s2.sourceRef # 0
            THEN [disconnect(s2, <<"source", s2.sourceRef>>) EXCEPT !.sourceRef = 0] ELSE s2
      s4 == IF s3.audioContextRef # 0
            THEN [closeContext(s3, s3.audioContextRef) EXCEPT !.audioContextRef = 0] ELSE s3
      s5 == clearAnalyser(s4)
  IN [s5 EXCEPT !.isListening = IF s5.mounted THEN FALSE ELSE @]

\* Commit of a re-render: the animation effect has deps [isListening, animate],
\* and animate changes with isListening and visualizationType.
LAV_Render(prev, s) ==
  IF ~s.mounted \/ LAV_closure(s) = prev THEN s
  ELSE animationEffect(animationCleanup(s), LAV_closure(s))

\* startListening up to the await of getUserMedia
LAV_startListening(s, k) ==
  [s EXCEPT !.error = IF s.mounted THEN FALSE ELSE @,
            !.starts[k] = [pc |-> "gum", stream |-> 0, ctx |-> 0]]

\* startListening after getUserMedia resolved; outcome "ctxThrows": the
\* AudioContext constructor throws and the catch block runs.
LAV_startResolved(s, k, outcome) ==
  LET st == s.nStreams + 1
      s1 == [s EXCEPT !.nStreams = st, !.liveStreams = @ \cup {st},
                      !.streamRef = st, !.starts[k] = Finished]
  IN IF outcome = "ctxThrows"
     THEN [s1 EXCEPT !.op = "startFailed", !.error = IF s1.mounted THEN TRUE ELSE @]
     ELSE LET c == s1.nCtx + 1
          IN [s1 EXCEPT !.op = "startOk",
                        !.nCtx = c, !.openCtx = @ \cup {c},
                        !.audioContextRef = c, !.analyserRef = c,
                        !.sourceRef = c,
                        !.edges = @ \cup {<< <<"source", c>>, <<"analyser", c>> >>,
                                          << <<"analyser", c>>, <<"destination", c>> >>},
                        !.starts[k].ctx = c,
                        !.isListening = IF s1.mounted THEN TRUE ELSE @]

\* the catch block of startListening / startRecording after getUserMedia rejected
startRejected(s, k) ==
  [s EXCEPT !.starts[k] = Finished, !.error = IF s.mounted THEN TRUE ELSE @]

\* Unmount: the effect cleanups in declaration order
LAV_unmount(s) ==
  LAV_stopListening([animationCleanup(s) EXCEPT !.mounted = FALSE])

\* ---- RecordingVisualizer ----

RV_closure(s) == [active |-> s.isRecording, vt |-> s.visualizationType]

\* stopRecording as created by a render in which isRecording was clIsRecording.
\* MediaRecorder.stop() throws InvalidStateError on an inactive recorder.
RV_stopRecording(s, clIsRecording) ==
  IF s.mediaRecorderRef # 0 /\ clIsRecording /\ s.mediaRecorderRef \notin s.recording
  THEN [s EXCEPT !.threw = TRUE]
  ELSE
  LET s0 == IF s.mediaRecorderRef # 0 /\ clIsRecording
            THEN [s EXCEPT !.recording = @ \ {s.mediaRecorderRef}] ELSE s
      s1 == IF s0.animationFrameRef # 0 THEN cancelAnimationFrame(s0, s0.animationFrameRef) ELSE s0
      s2 == IF s1.streamRef # 0
            THEN [stopTracks(s1, s1.streamRef) EXCEPT !.streamRef = 0] ELSE s1
      s3 == IF s2.sourceRef # 0
            THEN [disconnect(s2, <<"source", s2.sourceRef>>) EXCEPT !.sourceRef = 0] ELSE s2
      s4 == IF s3.audioContextRef # 0
            THEN [closeContext(s3, s3.audioContextRef) EXCEPT !.audioContextRef = 0] ELSE s3
      s5 == clearAnalyser([s4 EXCEPT !.mediaRecorderRef = 0])
  IN [s5 EXCEPT !.isRecording = IF s5.mounted THEN FALSE ELSE @]

\* Commit of a re-render.  Effects in declaration order: the animation effect
\* (deps [isRecording, animate]) and the cleanup effect (deps [stopRecording],
\* and stopRecording changes with isRecording).  All cleanups of the changed
\* effects run first, with the callbacks of the previous render, then the
\* effect bodies; a state update made meanwhile commits another render.
RECURSIVE RV_Render(_, _)
RV_Render(prev, s) ==
  IF ~s.mounted \/ RV_closure(s) = prev THEN s
  ELSE LET cl == RV_closure(s)
           s1 == animationCleanup(s)
           s2 == IF cl.active # prev.active THEN RV_stopRecording(s1, prev.active) ELSE s1
           s3 == animationEffect(s2, cl)
       IN RV_Render(cl, s3)

\* startRecording up to the await of getUserMedia
RV_startRecording(s, k) ==
  [s EXCEPT !.error = IF s.mounted THEN FALSE ELSE @,
            !.starts[k] = [pc |-> "gum", stream |-> 0, ctx |-> 0]]

\* startRecording from the creation of the analyser on (context c, stream st);
\* outcome "recorderThrows": the MediaRecorder constructor throws.
\* MediaRecorder.start() throws when the stream is inactive.
RV_startSetup(s, k, st, c, outcome) ==
  LET s1 == [s EXCEPT !.starts[k] = Finished,
                      !.analyserRef = c, !.sourceRef = c,
                      !.edges = @ \cup {<< <<"source", c>>, <<"analyser", c>> >>}]
      s2 == [s1 EXCEPT !.mediaRecorderRef = st,
                       !.recordingChunks = IF s1.mounted THEN <<>> ELSE @]
  IN IF outcome = "recorderThrows"
     THEN [s1 EXCEPT !.op = "startFailed", !.error = IF s1.mounted THEN TRUE ELSE @]
     ELSE IF st \notin s1.liveStreams
     THEN [s2 EXCEPT !.op = "startFailed",
                     !.error = IF s1.mounted THEN TRUE ELSE @]
     ELSE [s2 EXCEPT !.op = "startOk",
                     !.recording = @ \cup {st},
                     !.isRecording = IF s1.mounted THEN TRUE ELSE @]

\* mediaRecorder.ondataavailable of recorder r, for a chunk with data
RV_ondataavailable(s, r, chunk) ==
  IF s.mounted THEN [s EXCEPT !.recordingChunks = Append(@, chunk)] ELSE s

\* mediaRecorder.onstop of recorder r: the blob is built from the chunks in
\* the state and stored as completionData; the completion effect of the next
\* commit hands it to onRecordingComplete and clears completionData
RV_onstop(s, r) ==
  IF s.mounted
  THEN [s EXCEPT !.completed = Append(@, [rec |-> r, blob |-> s.recordingChunks])]
  ELSE s

\* startRecording after getUserMedia resolved; outcome "ctxThrows": the
\* AudioContext constructor throws; "suspended": the new context is suspended
\* and the function awaits audioContext.resume().
RV_startResolved(s, k, outcome) ==
  LET st == s.nStreams + 1
      s1 == [s EXCEPT !.nStreams = st, !.liveStreams = @ \cup {st},
                      !.streamRef = st, !.starts[k].stream = st]
      c == s1.nCtx + 1
      s2 == [s1 EXCEPT !.nCtx = c, !.openCtx = @ \cup {c}, !.audioContextRef = c,
                       !.starts[k].ctx = c]
  IN IF outcome = "ctxThrows"
     THEN [s1 EXCEPT !.op = "startFailed", !.starts[k] = Finished,
                     !.error = IF s1.mounted THEN TRUE ELSE @]
     ELSE IF outcome = "suspended"
     THEN [s2 EXCEPT !.op = "startAwait", !.starts[k].pc = "resume"]
     ELSE RV_startSetup(s2, k, st, c, outcome)

\* startRecording after the await of audioContext.resume(), which rejects
\* when the context was closed meanwhile
RV_startResumed(s, k, outcome) ==
  IF s.starts[k].ctx \notin s.openCtx
  THEN [s EXCEPT !.op = "startFailed", !.starts[k] = Finished,
                 !.error = IF s.mounted THEN TRUE ELSE @]
  ELSE RV_startSetup(s, k, s.starts[k].stream, s.starts[k].ctx, outcome)

RV_unmount(s) ==
  RV_stopRecording([animationCleanup(s) EXCEPT !.mounted = FALSE], s.isRecording)

\* ---- TextAudioVisualizer ----

TAV_closure(s) == [active |-> s.isPlaying, vt |-> s.visualizationType]

\* Commit of a re-render: the animation effect has deps [isPlaying, animate].
TAV_Render(prev, s) ==
  IF ~s.mounted \/ TAV_closure(s) = prev THEN s
  ELSE animationEffect(animationCleanup(s), TAV_closure(s))

\* speechSynthesis.cancel(): the utterance being spoken ceases and the queue is
\* emptied.  The engine reports the spoken utterance with an end or an error
\* event (how), and a queued one with an error event or not at all.
RECURSIVE speechCancel(_, _, _)
speechCancel(s, how, u) ==
  IF u > MaxStarts THEN s
  ELSE LET st == s.utt[u].st
           s1 == IF st \in {"speaking", "paused"}
                 THEN [s EXCEPT !.utt[u].st = "done", !.events = Append(@, <<u, how>>)]
                 ELSE IF st = "queued"
                 THEN [s EXCEPT !.utt[u].st = "done",
                                !.events = IF how = "error" THEN Append(@, <<u, "error">>) ELSE @]
                 ELSE s
       IN speechCancel(s1, how, u + 1)

\* oscillator.start(): InvalidStateError when start() was called before
oscillatorStart(s, u) ==
  IF s.utt[u].osc = "created" THEN [s EXCEPT !.utt[u].osc = "started"]
  ELSE [s EXCEPT !.threw = TRUE]

\* oscillator.stop(): InvalidStateError when start() was never called
oscillatorStop(s, u) ==
  IF s.utt[u].osc = "created" THEN [s EXCEPT !.threw = TRUE]
  ELSE [s EXCEPT !.utt[u].osc = "stopped"]

startModulation(s, u) == [s EXCEPT !.utt[u].timers = @ + 2]

stopModulation(s, u) == [s EXCEPT !.utt[u].timers = IF @ >= 2 THEN @ - 2 ELSE @]

TAV_initializeAudioContext(s) ==
  IF s.audioContextRef # 0 THEN s
  ELSE LET c == s.nCtx + 1
       IN [s EXCEPT !.nCtx = c, !.openCtx = @ \cup {c},
                    !.audioContextRef = c, !.analyserRef = c, !.gainNodeRef = c,
                    !.edges = @ \cup {<< <<"gain", c>>, <<"analyser", c>> >>,
                                      << <<"analyser", c>>, <<"destination", c>> >>}]

\* speakText from the creation of the utterance on
TAV_speakSetup(s, k) ==
  [s EXCEPT !.starts[k] = Finished,
            !.utt[k] = [st |-> "queued", osc |-> "created", timers |-> 0],
            !.edges = @ \cup {<< <<"oscillator", k>>, <<"filter", k>> >>,
                              << <<"filter", k>>, <<"oscillatorGain", k>> >>,
                              << <<"oscillatorGain", k>>, <<"gain", s.gainNodeRef>> >>},
            !.sourceRef = k]

\* speakText up to the await of audioContext.resume(), taken when the context
\* is suspended, and to its end otherwise
\* supported = FALSE: window.speechSynthesis is absent
TAV_speakText(s, k, how, suspended, supported) ==
  LET s1 == [s EXCEPT !.error = IF s.mounted THEN FALSE ELSE @]
      s2 == TAV_initializeAudioContext(speechCancel(s1, how, 1))
  IN IF ~supported
     THEN [s EXCEPT !.op = "speakUnsupported", !.error = IF s.mounted THEN TRUE ELSE @]
     ELSE IF suspended /\ s2.audioContextRef \in s2.openCtx
     THEN [s2 EXCEPT !.op = "speakAwait",
                     !.starts[k] = [pc |-> "resume", stream |-> 0, ctx |-> s2.audioContextRef]]
     ELSE TAV_speakSetup(s2, k)

\* speakText after the await; resume() rejects when the context was closed
TAV_speakResumed(s, k) ==
  IF s.starts[k].ctx \notin s.openCtx
  THEN [s EXCEPT !.op = "speakFailed", !.starts[k] = Finished, !.error = IF s.mounted THEN TRUE ELSE @]
  ELSE TAV_speakSetup(s, k)

TAV_onstart(s, u) ==
  LET s1 == [s EXCEPT !.isPlaying = IF s.mounted THEN TRUE ELSE @,
                      !.isPaused = IF s.mounted THEN FALSE ELSE @]
      s2 == oscillatorStart(s1, u)
  IN IF s2.threw THEN s2 ELSE startModulation(s2, u)

TAV_onend(s, u) ==
  LET s1 == [s EXCEPT !.isPlaying = IF s.mounted THEN FALSE ELSE @,
                      !.isPaused = IF s.mounted THEN FALSE ELSE @]
      s2 == oscillatorStop(s1, u)
  IN IF s2.threw THEN s2 ELSE stopModulation(s2, u)

TAV_onpause(s, u) ==
  LET s1 == [s EXCEPT !.isPaused = IF s.mounted THEN TRUE ELSE @]
      s2 == oscillatorStop(s1, u)
  IN IF s2.threw THEN s2 ELSE stopModulation(s2, u)

TAV_onresume(s, u) ==
  LET s1 == [s EXCEPT !.isPaused = IF s.mounted THEN FALSE ELSE @]
      s2 == oscillatorStart(s1, u)
  IN IF s2.threw THEN s2 ELSE startModulation(s2, u)

TAV_onerror(s, u) ==
  LET s1 == [s EXCEPT !.error = IF s.mounted THEN TRUE ELSE @,
                      !.isPlaying = IF s.mounted THEN FALSE ELSE @,
                      !.isPaused = IF s.mounted THEN FALSE ELSE @]
      s2 == oscillatorStop(s1, u)
  IN IF s2.threw THEN s2 ELSE stopModulation(s2, u)

\* the handler the utterance u registers for an event of type ty
TAV_handler(s, u, ty) ==
  CASE ty = "start" -> TAV_onstart(s, u)
    [] ty = "end" -> TAV_onend(s, u)
    [] ty = "pause" -> TAV_onpause(s, u)
    [] ty = "resume" -> TAV_onresume(s, u)
    [] ty = "error" -> TAV_onerror(s, u)

TAV_stopSpeech(s, how) ==
  LET s1 == speechCancel(s, how, 1)
      s2 == IF s1.sourceRef # 0 THEN oscillatorStop(s1, s1.sourceRef) ELSE s1
  IN IF s2.threw THEN s2
     ELSE [s2 EXCEPT !.sourceRef = 0,
                     !.isPlaying = IF s.mounted THEN FALSE ELSE @,
                     !.isPaused = IF s.mounted THEN FALSE ELSE @]

\* speechSynthesis.pause(): the utterance being spoken is paused and reports it
TAV_pauseSpeech(s) ==
  LET sp == {u \in 1..MaxStarts : s.utt[u].st = "speaking"}
  IN IF sp = {} \/ s.speechPaused THEN [s EXCEPT !.speechPaused = TRUE]
     ELSE LET u == CHOOSE u \in sp : TRUE
          IN [s EXCEPT !.speechPaused = TRUE, !.utt[u].st = "paused",
                       !.events = Append(@, <<u, "pause">>)]

\* speechSynthesis.resume()
TAV_resumeSpeech(s) ==
  LET pa == {u \in 1..MaxStarts : s.utt[u].st = "paused"}
  IN IF pa = {} \/ ~s.speechPaused THEN [s EXCEPT !.speechPaused = FALSE]
     ELSE LET u == CHOOSE u \in pa : TRUE
          IN [s EXCEPT !.speechPaused = FALSE, !.utt[u].st = "speaking",
                       !.events = Append(@, <<u, "resume">>)]

\* Unmount: the animation cleanup, then stopSpeech and the close of the context
TAV_unmount(s, how) ==
  LET s1 == TAV_stopSpeech([animationCleanup(s) EXCEPT !.mounted = FALSE], how)
  IN IF s1.threw \/ s1.audioContextRef = 0 THEN s1
     ELSE closeContext(s1, s1.audioContextRef)

\* ---- AudioVisualizer (driven by the page's analyser and isPlaying) ----

AV_animate(s, cl) ==
  IF cl.analyser = 0 \/ ~s.mounted \/ ~cl.active
  THEN s
  ELSE LET id == NewFrameId(s)
       IN [s EXCEPT !.drew = TRUE,
                    !.pendingFrames = @ \cup {[id |-> id, cl |-> cl]},
                    !.animationFrameRef = id]

\* the animation effect, deps [isPlaying, analyser, animate]
AV_animationEffect(s, cl) ==
  IF cl.active /\ cl.analyser # 0 THEN AV_animate(s, cl)
  ELSE IF s.animationFrameRef # 0 THEN cancelAnimationFrame(s, s.animationFrameRef)
  ELSE s

\* ---- AudioControls (two variants) and OldRecording, under a page ----

HasRecording(c) == c \in {"File1", "Old"}
HasUpload(c) == c \in {"File1", "File2"}

\* audioContext is the controls' state; the rest are the visualizer's props
AC_closure(s) ==
  [audioContext |-> s.audioContext, active |-> s.pgIsPlaying,
   analyser |-> s.pgAnalyser, vt |-> s.visualizationType]

\* the bridging effect, deps [audioContext]; createMediaElementSource throws
\* InvalidStateError on an element that was bridged before
AC_bridgingEffect(s) ==
  IF s.mounted /\ s.analyserRef # 0 /\ s.audioContext # 0
  THEN IF s.bridges > 0
       THEN [s EXCEPT !.bridges = @ + 1, !.threw = TRUE]
       ELSE [s EXCEPT !.bridges = @ + 1,
                      !.edges = @ \cup {<< <<"element", s.audioContext>>, <<"analyser", s.analyserRef>> >>,
                                        << <<"analyser", s.analyserRef>>, <<"destination", s.audioContext>> >>}]
  ELSE s

\* Commit of a re-render of the page, the controls and the visualizer
AC_Render(prev, s) ==
  IF ~s.mounted \/ AC_closure(s) = prev THEN s
  ELSE LET cl == AC_closure(s)
           s1 == IF [cl EXCEPT !.audioContext = 0] # [prev EXCEPT !.audioContext = 0]
                 THEN animationCleanup(s) ELSE s
           s2 == IF cl.audioContext # prev.audioContext THEN AC_bridgingEffect(s1) ELSE s1
       IN IF [cl EXCEPT !.audioContext = 0] # [prev EXCEPT !.audioContext = 0]
          THEN AV_animationEffect(s2, cl) ELSE s2

\* an initializer without the guard on the existing context
AC_initializeAudioContext_unguarded(s) ==
  LET c == s.nCtx + 1
  IN [s EXCEPT !.nCtx = c, !.openCtx = @ \cup {c},
               !.audioContext = IF s.mounted THEN c ELSE @,
               !.analyserRef = c,
               !.pgAnalyser = c]

AC_initializeAudioContext(s) ==
  IF s.audioContext # 0 THEN s
  ELSE LET c == s.nCtx + 1
       IN [s EXCEPT !.nCtx = c, !.openCtx = @ \cup {c},
                    !.audioContext = IF s.mounted THEN c ELSE @,
                    !.analyserRef = c,
                    !.pgAnalyser = c]

\* handleFileUpload up to its first await.  Variant 1 returns at once without
\* an audio context; variant 2 creates the context.
AC_handleFileUpload(s) ==
  IF s.component = "File1"
  THEN IF s.audioContext = 0 THEN s ELSE [s EXCEPT !.uploads = @ + 1]
  ELSE [AC_initializeAudioContext(s) EXCEPT !.uploads = @ + 1]

\* handleFileUpload after its awaits; decoded = FALSE: decodeAudioData rejects
\* (variant 1 only) and the catch block logs to the console
AC_fileLoaded(s, decoded) ==
  LET s1 == [s EXCEPT !.uploads = @ - 1]
  IN IF s.component = "File1" /\ ~decoded THEN [s1 EXCEPT !.op = "uploadFailed"]
     ELSE IF ~s.mounted THEN s1
     ELSE [s1 EXCEPT !.elementSrc = TRUE, !.elementPlaying = FALSE, !.audioUrl = TRUE]

\* startRecording up to the await of getUserMedia
AC_startRecording(s, k) ==
  [s EXCEPT !.starts[k] = [pc |-> "gum", stream |-> 0, ctx |-> 0]]

\* startRecording after getUserMedia resolved; outcome "recorderThrows": the
\* MediaRecorder constructor throws and the catch block alerts
AC_startResolved(s, k, outcome) ==
  LET st == s.nStreams + 1
      s1 == [s EXCEPT !.nStreams = st, !.liveStreams = @ \cup {st},
                      !.streamRef = st, !.starts[k] = Finished]
  IN IF outcome = "recorderThrows"
     THEN [s1 EXCEPT !.op = "startFailed", !.alerted = TRUE]
     ELSE [s1 EXCEPT !.op = "startOk",
                     !.mediaRecorder = IF s1.mounted THEN st ELSE @,
                     !.recording = @ \cup {st},
                     !.isRecording = IF s1.mounted THEN TRUE ELSE @]

\* the catch block of startRecording after getUserMedia rejected: an alert
AC_startRejected(s, k) == [s EXCEPT !.starts[k] = Finished, !.alerted = TRUE]

\* MediaRecorder.stop() throws InvalidStateError on an inactive recorder
AC_stopRecording(s) ==
  IF s.mediaRecorder # 0 /\ s.isRecording
  THEN IF s.mediaRecorder \notin s.recording
       THEN [s EXCEPT !.threw = TRUE]
       ELSE LET s1 == [s EXCEPT !.recording = @ \ {s.mediaRecorder},
                                !.stopEvents = @ \cup {s.mediaRecorder},
                                !.isRecording = FALSE]
            IN IF s1.streamRef # 0 THEN stopTracks(s1, s1.streamRef) ELSE s1
  ELSE s

\* recorder.onstop
AC_onstop(s, r) ==
  IF s.mounted
  THEN [s EXCEPT !.audioUrl = TRUE, !.elementSrc = TRUE, !.elementPlaying = FALSE]
  ELSE s

\* recorder.onerror
AC_onerror(s, r) == [s EXCEPT !.isRecording = IF s.mounted THEN FALSE ELSE @]

\* playAudio up to the settling of the play() promise
AC_playAudio(s) ==
  IF ~s.mounted THEN s
  ELSE [AC_initializeAudioContext(s) EXCEPT !.elementPlaying = s.elementSrc,
                                            !.playPending = @ + 1]

\* the then / catch callbacks of play(); a rejected play() leaves the element
\* not playing
AC_playSettled(s, ok) ==
  IF ~ok THEN [s EXCEPT !.playPending = @ - 1, !.elementPlaying = FALSE]
  ELSE IF s.mounted
  THEN [s EXCEPT !.playPending = @ - 1, !.isPlaying = TRUE, !.pgIsPlaying = TRUE]
  ELSE [s EXCEPT !.playPending = @ - 1]

\* pauseAudio and stopAudio (which also rewinds)
AC_pauseAudio(s) ==
  IF ~s.mounted THEN s
  ELSE [s EXCEPT !.elementPlaying = FALSE, !.isPlaying = FALSE, !.pgIsPlaying = FALSE]

\* an ended listener that leaves the playing flags alone
AC_onEnded_keepsPlaying(s) == s

\* the ended listener of the audio element
AC_onEnded(s) ==
  IF ~s.mounted THEN s
  ELSE [s EXCEPT !.isPlaying = FALSE, !.pgIsPlaying = FALSE]

\* Unmount of the controls and the visualizer: the controls release nothing,
\* the visualizer's animation cleanup runs
AC_unmount(s) == [animationCleanup(s) EXCEPT !.mounted = FALSE]

\* TabView renders the content of the active tab only: leaving the tab
\* unmounts the controls and the visualizer, coming back mounts new instances
\* (new state, new refs, a new audio element) under the page, whose state
\* (analyser, isPlaying, visualizationType) is kept.  The visualizer's
\* animation effect runs at the mount with the page's values.
AC_remount(s) ==
  LET s1 == AC_unmount(s)
      s2 == [s1 EXCEPT !.mounted = TRUE,
                       !.audioContext = 0, !.isRecording = FALSE, !.isPlaying = FALSE,
                       !.mediaRecorder = 0, !.audioUrl = FALSE,
                       !.analyserRef = 0, !.streamRef = 0,
                       !.elementSrc = FALSE, !.elementPlaying = FALSE, !.bridges = 0,
                       !.animationFrameRef = 0]
  IN AV_animationEffect(s2, AC_closure(s2))

\* ---- dispatch on the mounted component ----

Closure(s) ==
  CASE s.component = "Live" -> LAV_closure(s)
    [] s.component = "Rec" -> RV_closure(s)
    [] s.component = "Text" -> TAV_closure(s)
    [] OTHER -> AC_closure(s)

Render(prev, s) ==
  CASE s.component = "Live" -> LAV_Render(prev, s)
    [] s.component = "Rec" -> RV_Render(prev, s)
    [] s.component = "Text" -> TAV_Render(prev, s)
    [] OTHER -> AC_Render(prev, s)

\* The operation handler applied to the current state, followed by the commit.
Do(s) == Install(Render(Closure(Cur), s))

StartOutcomes ==
  CASE component = "Live" -> {"ok", "ctxThrows"}
    [] component = "Rec" -> {"ok", "ctxThrows", "suspended", "recorderThrows"}
    [] OTHER -> {"ok", "recorderThrows"}

\* ---- actions ----

FreeStart ==
  {k \in 1..MaxStarts : starts[k].pc = "none" /\ \A j \in 1..(k-1) : starts[j].pc # "none"}

\* the state flag that the component shows as Active
ActiveFlag ==
  CASE component = "Live" -> isListening
    [] component = "Rec" -> isRecording
    [] component = "Text" -> isPlaying
    [] OTHER -> isRecording

\* click on the button while it reads "Start ..."
Start ==
  /\ component \in Capturing /\ mounted /\ ~ActiveFlag
  /\ \E k \in FreeStart :
       Do(CASE component = "Live" -> LAV_startListening(Begin("start"), k)
            [] component = "Rec" -> RV_startRecording(Begin("start"), k)
            [] OTHER -> AC_startRecording(Begin("start"), k))

\* getUserMedia resolves with a stream
StartResolved ==
  /\ component \in Capturing
  /\ \E k \in 1..MaxStarts, outcome \in StartOutcomes :
       /\ starts[k].pc = "gum"
       /\ Do(CASE component = "Live" -> LAV_startResolved(Begin("startOk"), k, outcome)
               [] component = "Rec" -> RV_startResolved(Begin("startOk"), k, outcome)
               [] OTHER -> AC_startResolved(Begin("startOk"), k, outcome))

\* audioContext.resume() settles
StartResumed ==
  /\ component = "Rec"
  /\ \E k \in 1..MaxStarts, outcome \in {"ok", "recorderThrows"} :
       /\ starts[k].pc = "resume"
       /\ Do(RV_startResumed(Begin("startOk"), k, outcome))

\* getUserMedia rejects (permission denied, no device)
StartRejected ==
  /\ component \in Capturing
  /\ \E k \in 1..MaxStarts :
       /\ starts[k].pc = "gum"
       /\ Do(IF component \in {"Live", "Rec"}
             THEN startRejected(Begin("startDenied"), k)
             ELSE AC_startRejected(Begin("startDenied"), k))

\* click on the button while it reads "Stop ..."
Stop ==
  /\ mounted /\ ActiveFlag
  /\ \E how \in CancelHow :
       Do(CASE component = "Live" -> LAV_stopListening(Begin("stop"))
            [] component = "Rec" -> RV_stopRecording(Begin("stop"), isRecording)
            [] component = "Text" -> TAV_stopSpeech(Begin("stop"), how)
            [] OTHER -> AC_stopRecording(Begin("stop")))

\* a scheduled animation callback fires
Frame ==
  /\ \E f \in pendingFrames :
       LET s == [Begin("frame") EXCEPT !.pendingFrames = @ \ {f}]
       IN Install(IF component \in {"Live", "Rec", "Text"}
                  THEN animate(s, f.cl) ELSE AV_animate(s, f.cl))

Unmount ==
  /\ mounted
  /\ \E how \in CancelHow :
       Install(CASE component = "Live" -> LAV_unmount(Begin("unmount"))
                 [] component = "Rec" -> RV_unmount(Begin("unmount"))
                 [] component = "Text" -> TAV_unmount(Begin("unmount"), how)
                 [] OTHER -> AC_unmount(Begin("unmount")))

\* ---- actions: MediaRecorder events ----

\* a recorder whose stream has no live track left becomes inactive
RecorderInactive ==
  /\ \E r \in recording :
       /\ r \notin liveStreams
       /\ Install([Begin("recorderInactive") EXCEPT !.recording = @ \ {r},
                                                    !.stopEvents = @ \cup {r}])

\* a recorder fails: its error event, its stop event follows
RecorderError ==
  /\ HasRecording(component)
  /\ \E r \in recording :
       Do(AC_onerror([Begin("recorderError") EXCEPT !.recording = @ \ {r},
                                                    !.stopEvents = @ \cup {r}], r))

\* the stop event of a recorder is delivered
RecorderStopped ==
  /\ \E r \in stopEvents :
       LET s == [Begin("recorderStop") EXCEPT !.stopEvents = @ \ {r}]
       IN Do(IF HasRecording(component) THEN AC_onstop(s, r)
             ELSE IF component = "Rec" THEN RV_onstop(s, r) ELSE s)

\* the chunks delivered by the recorders 1 .. n
RECURSIVE TotalEmitted(_)
TotalEmitted(n) == IF n = 0 THEN 0 ELSE emitted[n] + TotalEmitted(n - 1)

\* a recorder delivers the data gathered so far: every second while it
\* records, and once more before its stop event
DataAvailable ==
  /\ component = "Rec"
  /\ TotalEmitted(MaxStarts) < MaxChunks
  /\ \E r \in recording \cup stopEvents :
       /\ Do(RV_ondataavailable([Begin("dataavailable") EXCEPT !.emitted[r] = @ + 1],
                                r, <<r, emitted[r] + 1>>))

\* ---- actions: AudioControls / OldRecording ----

\* the user picks a file
Upload ==
  /\ HasUpload(component) /\ mounted /\ uploads < MaxPending
  /\ Do(AC_handleFileUpload(Begin("upload")))

FileLoaded ==
  /\ HasUpload(component) /\ uploads > 0
  /\ \E decoded \in BOOLEAN : Do(AC_fileLoaded(Begin("fileLoaded"), decoded))

\* click on Play, enabled with an audioUrl while not playing
Play ==
  /\ component \in Controls /\ mounted /\ audioUrl /\ ~isPlaying
  /\ playPending < MaxPending
  /\ Do(AC_playAudio(Begin("play")))

PlaySettled ==
  /\ component \in Controls /\ playPending > 0
  /\ \E ok \in BOOLEAN :
       /\ ok => elementPlaying
       /\ Do(AC_playSettled(Begin("playSettled"), ok))

\* click on Pause, enabled while playing, or on Stop, enabled with an audioUrl
PauseOrStopAudio ==
  /\ component \in Controls /\ mounted /\ (isPlaying \/ audioUrl)
  /\ Do(AC_pauseAudio(Begin("stopAudio")))

\* playback reaches the end of the media
Ended ==
  /\ component \in Controls /\ elementPlaying /\ playPending = 0
  /\ Do(AC_onEnded([Begin("naturalEnd") EXCEPT !.elementPlaying = FALSE]))

\* ---- actions: TextAudioVisualizer and the speech engine ----

\* click on the button while it reads "Speak"
Speak ==
  /\ component = "Text" /\ mounted /\ ~isPlaying
  /\ \E k \in FreeStart, how \in CancelHow, suspended, supported \in BOOLEAN :
       Do(TAV_speakText(Begin("speak"), k, how, suspended, supported))

\* audioContext.resume() settles
SpeakResumed ==
  /\ component = "Text"
  /\ \E k \in 1..MaxStarts :
       /\ starts[k].pc = "resume"
       /\ Do(TAV_speakResumed(Begin("speak"), k))

\* click on the Pause / Resume button
PauseResume ==
  /\ component = "Text" /\ mounted /\ isPlaying
  /\ Do(IF isPaused THEN TAV_resumeSpeech(Begin("resume"))
                    ELSE TAV_pauseSpeech(Begin("pause")))

\* the engine starts the first queued utterance
EngineStart ==
  /\ component = "Text" /\ events = <<>> /\ ~speechPaused
  /\ \A u \in 1..MaxStarts : utt[u].st \notin {"speaking", "paused"}
  /\ \E u \in 1..MaxStarts :
       /\ utt[u].st = "queued"
       /\ \A v \in 1..(u-1) : utt[v].st # "queued"
       /\ Do(TAV_onstart([Begin("onstart") EXCEPT !.utt[u].st = "speaking"], u))

\* the utterance being spoken reaches its end, or fails
EngineFinish ==
  /\ component = "Text" /\ events = <<>>
  /\ \E u \in 1..MaxStarts, ty \in {"end", "error"} :
       /\ utt[u].st = "speaking"
       /\ Do(TAV_handler([Begin(IF ty = "end" THEN "naturalEnd" ELSE "onerror")
                            EXCEPT !.utt[u].st = "done"], u, ty))

\* the engine delivers the oldest queued event
Deliver ==
  /\ component = "Text" /\ events # <<>>
  /\ Do(TAV_handler([Begin("on" \o Head(events)[2]) EXCEPT !.events = Tail(@)],
                    Head(events)[1], Head(events)[2]))

\* ---- the page ----

\* the page's Waveform / Spectrum toggle: the component re-renders with the new prop
ChangeType ==
  /\ mounted
  /\ \E vt \in VizTypes :
       /\ vt # visualizationType
       /\ Do([Begin("changeType") EXCEPT !.visualizationType = vt])

\* the user leaves the tab of the controls and comes back, at a moment when
\* the leaving instance awaits nothing and records nothing
SwitchTab ==
  /\ component \in Controls /\ mounted
  /\ ~(\E k \in 1..MaxStarts : starts[k].pc \in {"gum", "resume"})
  /\ playPending = 0 /\ uploads = 0 /\ recording = {} /\ stopEvents = {}
  /\ nCtx < MaxContexts
  /\ Install(AC_remount(Begin("switchTab")))

\* ---- drawing ----

MaxLog == 10        \* snapshots have 1 .. 2^MaxLog samples; 1024 is the frequencyBinCount of fftSize 2048

RECURSIVE Pow2(_)
Pow2(n) == IF n = 0 THEN 1 ELSE 2 * Pow2(n - 1)

Lens == {Pow2(k) : k \in 0..MaxLog}

\* the defaults of the props
DefaultConfig == [width |-> 800, height |-> 200, barWidth |-> 4, barGap |-> 2]

Configs ==
  [width : {300, 800, 1200}, height : {100, 200}, barWidth : {1, 4}, barGap : {0, 2}]

\* byte snapshots: silence in the time domain, all bins full, all zero, a ramp, a square wave
Patterns == {"silence", "full", "zero", "ramp", "square"}

Sample(p, i) ==
  CASE p = "silence" -> 128
    [] p = "full" -> 255
    [] p = "zero" -> 0
    [] p = "ramp" -> (8 * i) % 256
    [] OTHER -> IF i % 2 = 0 THEN 0 ELSE 255

Snapshots == {[i \in 1..L |-> Sample(p, i)] : L \in Lens, p \in Patterns}

Blank == [fn |-> "none", path |-> <<>>, bars |-> <<>>]

\* Coordinates are exact fractions <<numerator, denominator>>.  With a snapshot
\* length that is a power of two the doubles of the code hold the same values.
RECURSIVE GCD(_, _)
GCD(a, b) == IF b = 0 THEN a ELSE GCD(b, a % b)

\* a fraction in lowest terms
Norm(q) == LET g == GCD(q[1], q[2]) IN <<q[1] \div g, q[2] \div g>>

RatEq(a, b) == Norm(a) = Norm(b)

\* a drawWaveform that closes the path on the bottom edge
drawWaveform_closesLow(cfg, data) ==
  [fn |-> "waveform",
   path |-> Append([i \in 1..Len(data) |-> [x |-> <<(i - 1) * cfg.width, Len(data)>>,
                                             y |-> <<data[i] * cfg.height, 256>>]],
                   [x |-> <<cfg.width, 1>>, y |-> <<cfg.height, 1>>]),
   bars |-> <<>>]

\* a drawWaveform that does not close the path
drawWaveform_open(cfg, data) ==
  [fn |-> "waveform",
   path |-> [i \in 1..Len(data) |-> [x |-> <<(i - 1) * cfg.width, Len(data)>>,
                                      y |-> <<data[i] * cfg.height, 256>>]],
   bars |-> <<>>]

\* drawWaveform: the points handed to moveTo / lineTo, in order.  The loop
\* plots sample i (from 0) at x = i * sliceWidth, y = (data[i] / 128) * height / 2;
\* after the loop the path is closed with lineTo(width, height / 2).
drawWaveform(cfg, data) ==
  LET L == Len(data)
      loop == [i \in 1..L |-> [x |-> <<(i - 1) * cfg.width, L>>,
                                y |-> <<data[i] * cfg.height, 256>>]]
  IN [fn |-> "waveform",
      path |-> Append(loop, [x |-> <<cfg.width, 1>>, y |-> <<cfg.height, 2>>]),
      bars |-> <<>>]

\* a number that is not a number, written 0 / 0
NaN == <<0, 0>>

\* data[idx] of a Uint8Array (idx from 0): a byte, or undefined (written -1)
\* outside the array
At(data, idx) == IF idx \in 0..(Len(data) - 1) THEN data[idx + 1] ELSE -1

\* the fraction num / den computed from the sample value: NaN when the
\* sample is undefined
Frac(num, den, value) == IF value < 0 THEN NaN ELSE <<num, den>>

\* a drawSpectrum that scales the byte by 256
drawSpectrum_by256(cfg, data) ==
  LET barCount == cfg.width \div (cfg.barWidth + cfg.barGap)
      step == IF barCount = 0 THEN 0 ELSE Len(data) \div barCount
      bar(i) == LET value == At(data, i * step)
                IN [x |-> i * (cfg.barWidth + cfg.barGap),
                    y |-> <<256 * cfg.height - value * cfg.height, 256>>,
                    w |-> cfg.barWidth,
                    h |-> <<value * cfg.height, 256>>,
                    src |-> i * step]
  IN [fn |-> "spectrum", path |-> <<>>,
      bars |-> [i \in 1..barCount |-> bar(i - 1)]]

\* a drawSpectrum that shows the mean of each bar's bucket of bins
drawSpectrum_averaging(cfg, data) ==
  LET barCount == cfg.width \div (cfg.barWidth + cfg.barGap)
      step == IF barCount = 0 THEN 0 ELSE Len(data) \div barCount
      n == IF step = 0 THEN 1 ELSE step
      sum[k \in 0..n] == IF k = 0 THEN [i \in 0..(barCount - 1) |-> 0]
                         ELSE [i \in 0..(barCount - 1) |-> sum[k - 1][i] + data[i * step + k]]
      bar(i) == [x |-> i * (cfg.barWidth + cfg.barGap),
                 y |-> <<255 * n * cfg.height - sum[n][i] * cfg.height, 255 * n>>,
                 w |-> cfg.barWidth,
                 h |-> <<sum[n][i] * cfg.height, 255 * n>>,
                 src |-> i * step]
  IN [fn |-> "spectrum", path |-> <<>>,
      bars |-> [i \in 1..barCount |-> bar(i - 1)]]

\* a drawSpectrum that rounds the step up
drawSpectrum_stepUp(cfg, data) ==
  LET barCount == cfg.width \div (cfg.barWidth + cfg.barGap)
      step == IF barCount = 0 THEN 0 ELSE (Len(data) + barCount - 1) \div barCount
      bar(i) == LET value == At(data, i * step)
                IN [x |-> i * (cfg.barWidth + cfg.barGap),
                    y |-> Frac(255 * cfg.height - value * cfg.height, 255, value),
                    w |-> cfg.barWidth,
                    h |-> Frac(value * cfg.height, 255, value),
                    src |-> i * step]
  IN [fn |-> "spectrum", path |-> <<>>,
      bars |-> [i \in 1..barCount |-> bar(i - 1)]]

\* drawSpectrum: the rectangles handed to fillRect, in order, each with the
\* index of the sample it read
drawSpectrum(cfg, data) ==
  LET barCount == cfg.width \div (cfg.barWidth + cfg.barGap)
      step == IF barCount = 0 THEN 0 ELSE Len(data) \div barCount
      bar(i) == LET value == At(data, i * step)
                IN [x |-> i * (cfg.barWidth + cfg.barGap),
                    y |-> Frac(255 * cfg.height - value * cfg.height, 255, value),
                    w |-> cfg.barWidth,
                    h |-> Frac(value * cfg.height, 255, value),
                    src |-> i * step]
  IN [fn |-> "spectrum", path |-> <<>>,
      bars |-> [i \in 1..barCount |-> bar(i - 1)]]

\* animate with visualizationType "waveform": the analyser fills the array
\* with the time-domain data of this frame, which is drawn
DrawWaveform ==
  /\ \E d \in Snapshots :
       /\ Len(d) = Len(snapshot)
       /\ snapshot' = d
       /\ canvas' = drawWaveform(config, d)
  /\ UNCHANGED <<cvars, config>>

\* animate with visualizationType "spectrum": the same with the frequency data
DrawSpectrum ==
  /\ \E d \in Snapshots :
       /\ Len(d) = Len(snapshot)
       /\ snapshot' = d
       /\ canvas' = drawSpectrum(config, d)
  /\ UNCHANGED <<cvars, config>>

Components == {"Live", "Rec", "Text", "File1", "File2", "Old"}

InitComponent ==
  /\ component \in Components
  /\ mounted = TRUE
  /\ op = "mount"
  /\ threw = FALSE
  /\ visualizationType = "spectrum"
  /\ isListening = FALSE
  /\ isRecording = FALSE
  /\ mediaRecorderRef = 0
  /\ recording = {}
  /\ error = FALSE
  /\ animationFrameRef = 0
  /\ pendingFrames = {}
  /\ drew = FALSE
  /\ audioContextRef = 0
  /\ analyserRef = 0
  /\ streamRef = 0
  /\ sourceRef = 0
  /\ nStreams = 0
  /\ liveStreams = {}
  /\ nCtx = 0
  /\ openCtx = {}
  /\ edges = {}
  /\ starts = [k \in 1..MaxStarts |-> NoStart]
  /\ isPlaying = FALSE
  /\ isPaused = FALSE
  /\ gainNodeRef = 0
  /\ utt = [k \in 1..MaxStarts |-> NoUtterance]
  /\ events = <<>>
  /\ speechPaused = FALSE
  /\ audioContext = 0
  /\ mediaRecorder = 0
  /\ audioUrl = FALSE
  /\ elementSrc = FALSE
  /\ elementPlaying = FALSE
  /\ bridges = 0
  /\ playPending = 0
  /\ uploads = 0
  /\ stopEvents = {}
  /\ pgAnalyser = 0
  /\ pgIsPlaying = FALSE
  /\ alerted = FALSE
  /\ recordingChunks = <<>>
  /\ emitted = [k \in 1..MaxStarts |-> 0]
  /\ completed = <<>>
  /\ released = <<>>

Init ==
  /\ InitComponent
  /\ config = DefaultConfig
  /\ snapshot = <<>>
  /\ canvas = Blank

Next ==
  \/ Start
  \/ StartResolved
  \/ StartResumed
  \/ StartRejected
  \/ Stop
  \/ Frame
  \/ Unmount
  \/ ChangeType
  \/ SwitchTab
  \/ RecorderInactive
  \/ RecorderError
  \/ RecorderStopped
  \/ Upload
  \/ FileLoaded
  \/ Play
  \/ PlaySettled
  \/ PauseOrStopAudio
  \/ Ended
  \/ Speak
  \/ SpeakResumed
  \/ PauseResume
  \/ EngineStart
  \/ EngineFinish
  \/ Deliver

Spec == Init /\ [][Next]_vars

\* RecordingVisualizer with the data its recorders deliver
InitRec ==
  /\ InitComponent /\ component = "Rec"
  /\ config = DefaultConfig
  /\ snapshot = <<>>
  /\ canvas = Blank

NextRec ==
  \/ Start
  \/ StartResolved
  \/ StartResumed
  \/ StartRejected
  \/ Unmount
  \/ ChangeType
  \/ RecorderInactive
  \/ RecorderStopped
  \/ DataAvailable

SpecRec == InitRec /\ [][NextRec]_vars

\* the draw functions applied to every configuration and snapshot
InitDraw ==
  /\ InitComponent /\ component = "Live"
  /\ config \in Configs
  /\ snapshot \in Snapshots
  /\ canvas = Blank

NextDraw ==
  \/ DrawWaveform
  \/ DrawSpectrum

SpecDraw == InitDraw /\ [][NextDraw]_vars

\* ---- lifecycle vocabulary ----

Visualizers == {"Live", "Rec", "Text"}

\* LifecycleState = Active: the flag that drives the instance's render loop
Active ==
  /\ mounted
  /\ CASE component = "Live" -> isListening
       [] component = "Rec" -> isRecording
       [] component = "Text" -> isPlaying
       [] OTHER -> pgIsPlaying

\* Active with its resources: the analyser, and the live capture stream where one is used
FullyActive ==
  /\ Active
  /\ analyserRef # 0
  /\ component \in {"Live", "Rec"} => streamRef \in liveStreams

InFlight == \E k \in 1..MaxStarts : starts[k].pc \in {"gum", "resume"}

\* the operations that leave Active by design
Exits == {"stop", "naturalEnd", "unmount", "onend", "onerror"}

TeardownOrder == <<"cancelFrame", "stopTracks", "disconnect", "closeContext", "clearAnalyser">>

\* seq lists some of the teardown steps, each at most once, in the order of the contract
InTeardownOrder(seq) ==
  \E f \in [1..Len(seq) -> 1..Len(TeardownOrder)] :
    /\ \A i \in 1..Len(seq) : TeardownOrder[f[i]] = seq[i]
    /\ \A i, j \in 1..Len(seq) : i < j => f[i] < f[j]

\* the nodes reached from the nodes ns along at most n connections
RECURSIVE ReachFrom(_, _)
ReachFrom(ns, n) ==
  IF n = 0 THEN ns
  ELSE ReachFrom(ns \cup {e[2] : e \in {d \in edges : d[1] \in ns}}, n - 1)

\* stop invoked from the state s, with the commit that follows it
StopOp(s, how) ==
  Render(Closure(s),
         CASE s.component = "Live" -> LAV_stopListening(s)
           [] s.component = "Rec" -> RV_stopRecording(s, s.isRecording)
           [] s.component = "Text" -> TAV_stopSpeech(s, how)
           [] OTHER -> AC_stopRecording(s))

\* ---- claims ----

\* C1: in every visualizer no frame is drawn and no animation callback is
\* pending while the instance is not Active, and at most one animation
\* callback is pending at any time.
C1_RenderLoopOnlyWhileActive ==
  /\ (drew \/ pendingFrames # {}) => Active
  /\ Cardinality(pendingFrames) <= 1

\* a stop that cancelled the pending callback of the render loop
C1_Witness ==
  /\ op = "stop" /\ ~Active
  /\ released # <<>> /\ released[1] = "cancelFrame"
  /\ pendingFrames = {}

\* C2 (as claimed): once a start succeeds the instance is Active, and it stays
\* Active until a user stop, a natural end or an unmount.
C2_ActiveUntilStopped ==
  [][/\ (component \in Visualizers /\ op' \in {"startOk", "onstart"} /\ mounted')
          => FullyActive'
     /\ (component \in Visualizers /\ FullyActive /\ op' \notin Exits)
          => FullyActive']_vars

\* C3 (as claimed): teardown runs on user stop, natural end and unmount in
\* every visualizer that owns audio resources: afterwards no callback is
\* pending, no stream is referenced, the context is closed and the analyser
\* reference is cleared, and the steps ran in the order of the contract.
C3_TeardownInOrder ==
  (component \in Visualizers /\ op \in {"stop", "naturalEnd", "unmount"})
    => /\ pendingFrames = {}
       /\ streamRef = 0
       /\ audioContextRef \notin openCtx
       /\ analyserRef = 0
       /\ InTeardownOrder(released)

\* C4 (as claimed): in any state, stop invoked twice in a row raises no error,
\* the second call changes nothing, and the state afterwards is Idle.
C4_StopIdempotent ==
  (component \in Visualizers /\ mounted) =>
    \A how \in CancelHow :
      LET s1 == StopOp(Begin("stop"), how)
          s2 == StopOp(s1, how)
      IN /\ ~s1.threw /\ ~s2.threw
         /\ s2 = s1
         /\ ~s1.isListening /\ ~s1.isRecording /\ ~s1.isPlaying
         /\ s1.streamRef = 0 /\ s1.sourceRef = 0 /\ s1.audioContextRef = 0
         /\ s1.analyserRef = 0 /\ s1.mediaRecorderRef = 0

\* C5 (as claimed): every stream that was acquired is the one referenced by
\* streamRef or has had its tracks stopped.
C5_OneLiveStream ==
  component \in Capturing => \A st \in liveStreams : st = streamRef

\* C6 (as claimed): after the unmount, once no start is awaiting any more, the
\* instance holds no live stream, no open context, no analyser reference and
\* no pending animation callback.
C6_UnmountReleases ==
  (component \in Visualizers /\ ~mounted /\ ~InFlight)
    => /\ liveStreams = {}
       /\ openCtx = {}
       /\ analyserRef = 0
       /\ pendingFrames = {}

\* C7 (as claimed): after stop returns, every track of every stream the
\* instance acquired is stopped and streamRef is null.
C7_StopReleasesDevice ==
  (component \in {"Live", "Rec"} /\ op = "stop")
    => (liveStreams = {} /\ streamRef = 0)

\* C8 (as claimed): the audio graph never has a path from a microphone stream
\* source node to an audio context destination.
C8_NoMicToDestination ==
  \A e \in edges :
    e[1][1] = "source" =>
      \A n \in ReachFrom({e[1]}, Cardinality(edges)) : n[1] # "destination"

\* C9: createMediaElementSource is called at most once on the hidden audio
\* element of AudioControls and of OldRecording.
C9_BridgedAtMostOnce == bridges <= 1

\* playback started in a commit after the one that bridged the element
C9_Witness ==
  /\ component \in Controls /\ op = "playSettled" /\ isPlaying
  /\ bridges = 1 /\ audioContext # 0

\* C10 (as claimed): when getUserMedia rejects, the instance ends with the
\* error message set and the active flag false, no animation callback is
\* scheduled, and no stream, context or analyser reference is held.
C10_DeniedLeavesError ==
  (component \in {"Live", "Rec"} /\ op = "startDenied" /\ mounted)
    => /\ error /\ ~Active
       /\ pendingFrames = {} /\ ~drew
       /\ streamRef = 0 /\ audioContextRef = 0 /\ analyserRef = 0

\* LifecycleState = Idle: mounted, not Active, and nothing started or in flight
Idle ==
  /\ mounted /\ ~Active /\ ~InFlight
  /\ \A k \in 1..MaxStarts : utt[k].st \in {"none", "done"}
  /\ events = <<>>
  /\ playPending = 0 /\ uploads = 0 /\ ~elementPlaying

\* C11 (as claimed): the audio contexts (each with its analyser) created and
\* not yet closed are at most one, and none while the instance is Idle.
C11_OneTapAlive ==
  /\ Cardinality(openCtx) <= 1
  /\ Idle => openCtx = {}

\* the steps in which an acquisition failed
AcquisitionFailed ==
  {"startDenied", "startFailed", "uploadFailed", "speakUnsupported", "speakFailed"}

\* C12 (as claimed): every acquisition error is caught inside the component,
\* is recorded as a message shown to the user (the error state, or an alert)
\* and leaves the component not Active.
C12_ErrorsSurface ==
  (op \in AcquisitionFailed /\ mounted)
    => /\ ~threw
       /\ error \/ alerted
       /\ ~Active

\* C13 (as claimed): the handlers of the utterance's start, pause, resume and
\* end events complete without error, and once the engine's events are
\* delivered the oscillator of an utterance runs exactly while it is spoken.
C13_ToneFollowsUtterance ==
  component = "Text" =>
    /\ op \in {"onstart", "onpause", "onresume", "naturalEnd"} => ~threw
    /\ events = <<>> =>
         \A u \in 1..MaxStarts : (utt[u].osc = "started") <=> (utt[u].st = "speaking")

\* C14 (as claimed): no modulation timer of any utterance is live while the
\* component is not playing or is paused.
C14_TimersOnlyWhileSpeaking ==
  component = "Text" =>
    ((~(mounted /\ isPlaying) \/ isPaused) => \A u \in 1..MaxStarts : utt[u].timers = 0)

\* the steps that start playback, speech or capture
Starts == {"startOk", "onstart", "playSettled"}

\* C15: at the natural end of file playback or of the utterance the playing
\* flag of the controls and the flag handed to the visualizer are false and
\* the render loop is halted; from then on, as long as the instance is not
\* Active, only a start makes it Active again and no frame is drawn.
C15_NaturalEndHalts ==
  [][/\ (component \in Controls \cup {"Text"} /\ op' = "naturalEnd" /\ mounted')
          => (~isPlaying' /\ ~pgIsPlaying' /\ ~Active' /\ pendingFrames' = {} /\ ~drew')
     /\ (component \in Controls \cup {"Text"} /\ ~Active /\ op' \notin Starts)
          => (~Active' /\ ~drew')]_vars

\* a natural end that halted a render loop with a callback pending
C15_Witness ==
  /\ component \in Controls /\ op = "naturalEnd" /\ mounted
  /\ released = <<"cancelFrame">> /\ ~Active

\* C16 (as claimed): an upload into a mounted AudioControls, of either
\* variant, starts loading the file, and when the load has finished the audio
\* element source and audioUrl are set, which enables the Play button.
C16_UploadReadyToPlay ==
  (component \in {"File1", "File2"} /\ mounted) =>
    /\ op = "upload" => uploads > 0
    /\ op = "fileLoaded" => (elementSrc /\ audioUrl)

\* C17 (as claimed): drawWaveform plots exactly L points for a snapshot of
\* length L, the first at x = 0 and the last at x = width.
C17_ExactlyLPoints ==
  canvas.fn = "waveform" =>
    /\ Len(canvas.path) = Len(snapshot)
    /\ RatEq(canvas.path[1].x, <<0, 1>>)
    /\ RatEq(canvas.path[Len(canvas.path)].x, <<config.width, 1>>)

\* C17 (amended): drawWaveform plots L + 1 connected points for a snapshot of
\* length L: the L samples at x = i * width / L for i = 0 .. L-1, the first at
\* x = 0 and the last sample left of the right edge, and one closing point at
\* (width, height / 2).
C17_LPointsAndClosingPoint ==
  canvas.fn = "waveform" =>
    LET L == Len(snapshot)
        path == canvas.path
    IN /\ Len(path) = L + 1
       /\ RatEq(path[1].x, <<0, 1>>)
       /\ \A i \in 1..L : RatEq(path[i].x, <<(i - 1) * config.width, L>>)
       /\ path[L].x[1] < config.width * path[L].x[2]
       /\ RatEq(path[L + 1].x, <<config.width, 1>>)
       /\ RatEq(path[L + 1].y, <<config.height, 2>>)

\* a waveform drawn from a snapshot of the analyser's 1024 samples
C17_Witness ==
  /\ canvas.fn = "waveform" /\ Len(snapshot) = 1024
  /\ Len(canvas.path) = 1025

\* C18: from a time-domain snapshot in which every sample is 128, every
\* point that drawWaveform plots, the closing point included, has y = height / 2.
C18_SilenceIsFlat ==
  (canvas.fn = "waveform" /\ \A i \in 1..Len(snapshot) : snapshot[i] = 128)
    => \A j \in 1..Len(canvas.path) : RatEq(canvas.path[j].y, <<config.height, 2>>)

\* silence drawn from the analyser's 1024 samples
C18_Witness ==
  /\ canvas.fn = "waveform" /\ Len(snapshot) = 1024
  /\ \A i \in 1..Len(snapshot) : snapshot[i] = 128
  /\ Len(canvas.path) > 1024

\* C19: from a frequency snapshot in which every bin is 255, drawSpectrum
\* draws every bar 0 .. barCount-1 with the height of the canvas, top edge y = 0.
C19_FullBinsFullBars ==
  (canvas.fn = "spectrum" /\ \A i \in 1..Len(snapshot) : snapshot[i] = 255)
    => /\ Len(canvas.bars) = config.width \div (config.barWidth + config.barGap)
       /\ \A j \in 1..Len(canvas.bars) :
            /\ RatEq(canvas.bars[j].h, <<config.height, 1>>)
            /\ RatEq(canvas.bars[j].y, <<0, 1>>)

\* full bins drawn with more bars than the snapshot has bins
C19_Witness ==
  /\ canvas.fn = "spectrum"
  /\ \A i \in 1..Len(snapshot) : snapshot[i] = 255
  /\ Len(canvas.bars) > Len(snapshot)

\* C20 (as claimed): the number of bars drawn is floor(width / (barWidth +
\* barGap)), whatever the snapshot, and never exceeds the snapshot's bin count.
C20_BarCountWithinBins ==
  canvas.fn = "spectrum" =>
    /\ Len(canvas.bars) = config.width \div (config.barWidth + config.barGap)
    /\ Len(canvas.bars) <= Len(snapshot)

\* the steps that end playback, speech or capture on request or at the end of the media
Halts == IF component \in Controls THEN {"stopAudio", "naturalEnd"} ELSE {"stop", "naturalEnd"}

\* C21 (as claimed): an invocation of animate whose render was not Active, or that finds
\* no analyser (or no canvas), draws nothing and schedules nothing; the flag a
\* pending callback checks is the instance's; after a stop or a natural end
\* no callback is pending and no frame is drawn, and none is until a start.
C21_AnimateChecksEachFrame ==
  [][/\ component \in Visualizers =>
          \A cl \in [active : BOOLEAN, vt : VizTypes] :
            (analyserRef = 0 \/ ~mounted \/ ~cl.active)
              => animate(Begin("frame"), cl) = Begin("frame")
     /\ \A f \in pendingFrames : f.cl.active <=> Active
     /\ (op' = "frame" /\ ~Active) => (~drew' /\ pendingFrames' = {})
     /\ op' \in Halts' => (~drew' /\ pendingFrames' = {})
     /\ (~Active /\ op' \notin Starts) => (~drew' /\ pendingFrames' = {})]_vars

\* C22: drawSpectrum decimates: bar i (from 0) shows the one sample at index
\* i * floor(binCount / barCount), its height that sample's share of 255 of
\* the canvas height, whatever the other samples of the bucket are.
C22_OneSamplePerBar ==
  (canvas.fn = "spectrum" /\ Len(canvas.bars) > 0) =>
    LET step == Len(snapshot) \div Len(canvas.bars)
    IN \A j \in 1..Len(canvas.bars) :
         /\ canvas.bars[j].src = (j - 1) * step
         /\ (j - 1) * step + 1 \in 1..Len(snapshot)
         /\ RatEq(canvas.bars[j].h, <<snapshot[(j - 1) * step + 1] * config.height, 255>>)
         /\ RatEq(canvas.bars[j].y,
                  <<255 * config.height - snapshot[(j - 1) * step + 1] * config.height, 255>>)

\* a spectrum whose bars each stand for several bins that differ
C22_Witness ==
  /\ canvas.fn = "spectrum" /\ Len(canvas.bars) > 1
  /\ Len(snapshot) \div Len(canvas.bars) >= 2
  /\ snapshot[1] # snapshot[2]
  /\ canvas.bars[1].h # canvas.bars[2].h

\* C23 (as claimed): in LiveAudioVisualizer and RecordingVisualizer only a
\* click on Start begins an acquisition; a start issued with an error message
\* showing clears the message before it acquires, and when it ends the
\* instance is Active with no message, or not Active with a message.
C23_RetryOnlyByUser ==
  [][/\ (component \in {"Live", "Rec"} /\ mounted')
          => /\ \A k \in 1..MaxStarts :
                  (starts[k].pc = "none" /\ starts'[k].pc # "none") => op' = "start"
             /\ nStreams' # nStreams => \E k \in 1..MaxStarts : starts[k].pc = "gum"
             /\ (op' = "start" /\ error) => (~error' /\ InFlight')
             /\ op' = "startOk" => (Active' /\ ~error')
             /\ op' \in {"startFailed", "startDenied"} => (~Active' /\ error')]_vars

\* C24 (as claimed): the isPlaying flag and the analyser that the page hands
\* to AudioVisualizer are those of the mounted controls, and the visualizer
\* draws or has a callback pending only while the mounted controls are playing.
C24_PageAgreesWithControls ==
  (component \in Controls /\ mounted) =>
    /\ pgIsPlaying = isPlaying
    /\ pgAnalyser = analyserRef
    /\ (drew \/ pendingFrames # {}) => isPlaying

\* C25 (as claimed): when a microphone start fails after getUserMedia
\* resolved, the instance shows the error, no capture track is live, and no
\* stream, context, analyser, source or recorder reference remains.
C25_FailedStartReleases ==
  (component \in {"Live", "Rec"} /\ op = "startFailed" /\ mounted)
    => /\ error /\ ~Active
       /\ liveStreams = {} /\ streamRef = 0
       /\ audioContextRef = 0 /\ openCtx = {}
       /\ analyserRef = 0 /\ sourceRef = 0 /\ mediaRecorderRef = 0

\* C26 (as claimed): in AudioControls and OldRecording no capture track that
\* the component acquired is live while isRecording is false, and every step
\* that sets isRecording to false leaves no track live.
C26_NotRecordingNoLiveTrack ==
  [][(component \in {"File1", "Old"} /\ mounted')
       => /\ ~isRecording' => liveStreams' = {}
          /\ (isRecording /\ ~isRecording') => liveStreams' = {}]_vars

\* C27 (as claimed): in RecordingVisualizer the stop of each recorder, while
\* the component is mounted, calls onRecordingComplete exactly once, with the
\* chunks that this recorder delivered since its start, in the order of
\* arrival, and no other step calls it.
C27_OneCompletionPerRecording ==
  (component = "Rec" /\ mounted) =>
    /\ op # "recorderStop" => completed = <<>>
    /\ op = "recorderStop" =>
         /\ Len(completed) = 1
         /\ completed[1].blob =
              [i \in 1..emitted[completed[1].rec] |-> <<completed[1].rec, i>>]

\* C28: a change of visualizationType while the instance is Active leaves it
\* Active and leaves the capture stream, the audio context and the analyser
\* as they were; the pending animation callback is cancelled and the loop
\* goes on with exactly one pending callback, which draws the new type.
C28_TypeChangeKeepsLoop ==
  [][(Active /\ op' = "changeType")
       => /\ Active' /\ ~threw'
          /\ isListening' = isListening /\ isRecording' = isRecording
          /\ isPlaying' = isPlaying /\ pgIsPlaying' = pgIsPlaying
          /\ streamRef' = streamRef /\ liveStreams' = liveStreams
          /\ audioContextRef' = audioContextRef /\ audioContext' = audioContext
          /\ openCtx' = openCtx /\ edges' = edges
          /\ analyserRef' = analyserRef /\ pgAnalyser' = pgAnalyser
          /\ pendingFrames # {} => released' = <<"cancelFrame">>
          /\ Cardinality(pendingFrames') = 1
          /\ \A f \in pendingFrames' :
               f.id = animationFrameRef' /\ f.cl.vt = visualizationType']_vars

\* the type changed under a listening LiveAudioVisualizer with a callback pending
C28_Witness ==
  /\ component = "Live" /\ op = "changeType" /\ isListening /\ mounted
  /\ streamRef \in liveStreams /\ analyserRef # 0
  /\ released = <<"cancelFrame">> /\ drew
  /\ Cardinality(pendingFrames) = 1

\* C29 (as claimed): in TextAudioVisualizer isPaused implies isPlaying in
\* every reachable state.
C29_PausedImpliesPlaying ==
  (component = "Text" /\ mounted) => (isPaused => isPlaying)

\* C30: for every configuration with barWidth + barGap > 0 and every snapshot
\* with at least one bin, the index of the sample that drawSpectrum reads for
\* bar i is i * floor(binCount / barCount) and lies in 0 .. binCount - 1, also
\* when there are more bars than bins.
C30_SampleIndexInRange ==
  (canvas.fn = "spectrum" /\ config.barWidth + config.barGap > 0 /\ Len(snapshot) >= 1) =>
    \A j \in 1..Len(canvas.bars) :
      /\ canvas.bars[j].src = (j - 1) * (Len(snapshot) \div Len(canvas.bars))
      /\ canvas.bars[j].src \in 0..(Len(snapshot) - 1)
      /\ canvas.bars[j].h # NaN

\* a spectrum of more bars than the snapshot has bins, and one of fewer bars
\* whose last bar reads a bin near the end
C30_Witness ==
  /\ canvas.fn = "spectrum" /\ Len(canvas.bars) > 0
  /\ \/ Len(canvas.bars) > Len(snapshot) /\ Len(snapshot) = 1
     \/ /\ Len(canvas.bars) < Len(snapshot)
        /\ canvas.bars[Len(canvas.bars)].src > Len(snapshot) \div 2

====
